---- MODULE Spec2Model ----
(***************************************************************************)
(* Model of secure_file_erasing.c: the 35-pass Gutmann wipe of one open    *)
(* file descriptor (spc_fd_wipe), its two pass primitives (random_pass,    *)
(* pattern_pass) and the reliable writer (write_data).                     *)
(*                                                                         *)
(* The kernel side of the descriptor (fstat, lseek, write, fsync) and an   *)
(* external process resizing the file are the environment: each system    *)
(* call picks its outcome nondeterministically.  Bytes are integers:       *)
(* 0..255 are pattern bytes, ORIG is a byte of the original content,       *)
(* UNINIT is a byte of a buffer that was never stored to, and the          *)
(* k-th byte ever produced by spc_rand is the distinct value RandByte(k).  *)
(***************************************************************************)
EXTENDS Integers, Sequences, FiniteSets, TLC

(* ------------------------------ constants ------------------------------ *)

SPC_WIPE_BUFSIZE == 4096

SSIZE_MAX == 2147483647

ORIG == -1

UNINIT == -2

single_pats ==
  << 0, 17, 34, 51, 68, 85, 102, 119, 136, 153, 170, 187, 204, 221, 238, 255 >>

triple_pats ==
  << <<146, 73, 36>>, <<73, 36, 146>>, <<36, 146, 73>>,
     <<109, 182, 219>>, <<182, 219, 109>>, <<219, 109, 182>> >>

(* ------------------------------- bounds -------------------------------- *)

\* how many times the environment may disturb one wipe without ending it:
\* a write() failing with EINTR, accepting fewer bytes than requested or
\* accepting none, a failing fsync(), another process resizing the file
MaxFaults == 1

\* lengths of the file when the wipe is called
FileSizes == {0, 1, 4, 5000}

\* lengths of the file where only write_data's progress is looked at
LiveSizes == {4, 5000}

\* lengths of the file where the caller calls spc_fd_wipe again and again
CallSizes == {0, 4}

(* ------------------------------ variables ------------------------------ *)

VARIABLES
  pc,        \* control point: "stat","call","seek","chunk","write","fsync","ret","done"
  file,      \* content of the file, file[i+1] is the byte at offset i
  pos,       \* file offset of the descriptor
  st_size,   \* st.st_size after fstat
  stage,     \* which of the seven loops / calls of spc_fd_wipe is running (1..7)
  pass,      \* spc_fd_wipe's loop variable pass
  buf,       \* spc_fd_wipe's scratch buffer
  rbuf,      \* random_pass's local buffer: the bytes of it that were ever stored to
  kind,      \* the pass primitive running: "none", "random" or "pattern"
  bufsz,     \* pattern_pass's bufsz (sizeof(buf) in random_pass)
  remaining, \* random_pass's nbytes / pattern_pass's filesz
  towrite,   \* the pass primitive's towrite = write_data's nbytes
  written,   \* write_data's written
  passRet,   \* value returned by the pass primitive
  ret,       \* value returned by spc_fd_wipe
  env,       \* what the environment has done: faults injected, resizes, a failed fsync
  ops,       \* calls issued: fstat since the wipe was called; lseek, fsync,
             \* spc_rand and write_data (chunks) since the current pass was
             \* started; write since the current call of write_data was made
  ndrawn,    \* how many random bytes spc_rand has produced
  started,   \* descriptors of the passes started, in order
  passAcc,   \* bytes accepted by write() in the current pass
  passLo,    \* file offset of the first write() of the current pass (-1: none)
  lastRes,   \* result of the last write() call
  failKind,  \* which call made the wipe fail: "none","stat","seek","write","bufsz"
  prev       \* what the caller's previous call of spc_fd_wipe returned, and why

vars == << pc, file, pos, st_size, stage, pass, buf, rbuf, kind, bufsz, remaining,
           towrite, written, passRet, ret, env, ops, ndrawn, started,
           passAcc, passLo, lastRes, failKind, prev >>

(* ------------------------------- helpers ------------------------------- *)

Fill(n, b) == [j \in 1..n |-> b]

RandByte(k) == 256 + k

\* memset(buf, c, sizeof(buf))
memset(c) == Fill(SPC_WIPE_BUFSIZE, c)

patternsz == Len(triple_pats[1])

\* count = sizeof(buf) / patternsz
TileCount == SPC_WIPE_BUFSIZE \div patternsz

\* copying the pattern to the front of the buffer at every turn of the loop
TileTriple_untiled(b, pattern) ==
  [j \in 1..SPC_WIPE_BUFSIZE |-> IF j <= patternsz THEN pattern[j] ELSE b[j]]

\* for (i = 0; i < count; i++) memcpy(buf + (i * patternsz), pattern, patternsz);
TileTriple(b, pattern) ==
  [j \in 1..SPC_WIPE_BUFSIZE |->
     IF j <= TileCount * patternsz THEN pattern[((j - 1) % patternsz) + 1] ELSE b[j]]

\* drawing random bytes only when the buffer holds fewer than n of them
spc_rand_reuse(b, n, drawn) ==
  IF Len(b) >= n THEN b ELSE [j \in 1..n |-> RandByte(drawn + j)]

\* spc_rand(buf, n): n fresh bytes at the front of the buffer; b holds the bytes
\* of the buffer that were stored to before
spc_rand(b, n, drawn) ==
  [j \in 1..n |-> RandByte(drawn + j)] \o SubSeq(b, n + 1, Len(b))

\* the kernel storing data at offset p of a file f (a gap reads as zeros)
WriteAt(f, p, data) ==
  IF p >= Len(f)
  THEN f \o Fill(p - Len(f), 0) \o data
  ELSE SubSeq(f, 1, p) \o data \o SubSeq(f, p + Len(data) + 1, Len(f))

\* ftruncate by another process
Resized(f, n) ==
  IF n <= Len(f) THEN SubSeq(f, 1, n) ELSE f \o Fill(n - Len(f), 0)

(* --------------------------- the pass plan ----------------------------- *)

\* spc_fd_wipe runs seven loops / calls in sequence; stage numbers them.
\* Number of iterations of each.
StageLen(s) ==
  CASE s = 1 -> 4
    [] s = 2 -> 1
    [] s = 3 -> 1
    [] s = 4 -> 3
    [] s = 5 -> Len(single_pats)
    [] s = 6 -> (Len(triple_pats) * patternsz) \div patternsz
    [] s = 7 -> 4

LastStage == 7

IsRandomStage(s) == s \in {1, 7}

IsTripleStage(s) == s \in {4, 6}

\* a plan that walks single_pats downwards in its fifth stage
PrepBuf_descending(s, p, b) ==
  CASE s = 2 -> memset(single_pats[5 + 1])
    [] s = 3 -> memset(single_pats[10 + 1])
    [] s = 4 -> TileTriple(b, triple_pats[p + 1])
    [] s = 5 -> memset(single_pats[Len(single_pats) - p])
    [] s = 6 -> TileTriple(b, triple_pats[p + 1])
    [] OTHER -> b

\* the scratch buffer as spc_fd_wipe prepares it before calling pattern_pass
PrepBuf(s, p, b) ==
  CASE s = 2 -> memset(single_pats[5 + 1])
    [] s = 3 -> memset(single_pats[10 + 1])
    [] s = 4 -> TileTriple(b, triple_pats[p + 1])
    [] s = 5 -> memset(single_pats[p + 1])
    [] s = 6 -> TileTriple(b, triple_pats[p + 1])
    [] OTHER -> b

\* handing sizeof(buf) to pattern_pass whatever the pattern's length
PrepSz_whole(s) == SPC_WIPE_BUFSIZE

\* the bufsz argument spc_fd_wipe hands to pattern_pass
PrepSz(s) == IF IsTripleStage(s) THEN patternsz * TileCount ELSE SPC_WIPE_BUFSIZE

\* the descriptor of the pass being started, read off the call that is made
Descriptor(s, b) ==
  IF IsRandomStage(s)
  THEN [kind |-> "random", pat |-> << >>]
  ELSE [kind |-> "pattern",
        pat  |-> SubSeq(b, 1, IF IsTripleStage(s) THEN patternsz ELSE 1)]

(* ------------------------------ write_data ----------------------------- *)

\* if (nbytes - written > SSIZE_MAX) towrite = SSIZE_MAX; else towrite = nbytes - written;
Request(nbytes, w) == IF nbytes - w > SSIZE_MAX THEN SSIZE_MAX ELSE nbytes - w

\* taking every successful write() to have accepted the whole request
Advance_assumed(w, result) == IF result >= 0 THEN towrite ELSE w

\* if ((result = write(...)) >= 0) written += result;
Advance(w, result) == IF result >= 0 THEN w + result ELSE w

\* giving up on every failing write, EINTR included
GivesUp_always(result, e) == result < 0

\* else if (errno != EINTR) return 0;
GivesUp(result, e) == result < 0 /\ e # "EINTR"

\* write_data without its loop: one write() call, whatever it accepted
LoopsAgain_once(w, nbytes) == FALSE

\* } while (written < nbytes);
LoopsAgain(w, nbytes) == w < nbytes

\* faults the environment has injected so far
Faults == env.faults

\* the buffer write_data was handed
wbuf == IF kind = "random" THEN rbuf ELSE buf

\* One iteration of write_data's loop, the write() call having returned result
\* (with errno e when result = -1), and what the calling pass primitive does
\* when write_data returns.
write_data_step(result, e) ==
  LET w2 == Advance(written, result) IN
  /\ written' = w2
  /\ lastRes' = result
  /\ ops' = [ops EXCEPT !.write = @ + 1]
  /\ IF GivesUp(result, e)
     THEN \* write_data returns 0, the pass primitive returns -1
          /\ passRet' = -1
          /\ failKind' = "write"
          /\ pc' = "ret"
          /\ UNCHANGED remaining
     ELSE IF LoopsAgain(w2, towrite)
     THEN /\ pc' = "write"
          /\ UNCHANGED << passRet, failKind, remaining >>
     ELSE \* write_data returns 1; nbytes -= towrite
          /\ remaining' = remaining - towrite
          /\ pc' = "chunk"
          /\ UNCHANGED << passRet, failKind >>

\* what the kernel does for write(fd, buf + written, n) accepting k bytes
kernel_write(k) ==
  /\ file' = WriteAt(file, pos, SubSeq(wbuf, written + 1, written + k))
  /\ pos' = pos + k
  /\ passAcc' = passAcc + k
  /\ passLo' = IF passLo = -1 THEN pos ELSE passLo

\* lengths a write() of n bytes may accept when it accepts fewer than n
ShortLens(n) == {k \in {1, n \div 2, n - 1} : 0 < k /\ k < n}

WriteFrame == << st_size, stage, pass, buf, rbuf, kind, bufsz, towrite, ret,
                 ndrawn, started, prev >>

WriteAll ==
  /\ pc = "write"
  /\ kernel_write(Request(towrite, written))
  /\ write_data_step(Request(towrite, written), "none")
  /\ UNCHANGED << WriteFrame, env >>

WriteShort ==
  /\ pc = "write"
  /\ Faults < MaxFaults
  /\ \E k \in ShortLens(Request(towrite, written)) :
       /\ kernel_write(k)
       /\ write_data_step(k, "none")
  /\ env' = [env EXCEPT !.faults = @ + 1]
  /\ UNCHANGED WriteFrame

WriteZero ==
  /\ pc = "write"
  /\ Faults < MaxFaults
  /\ kernel_write(0)
  /\ write_data_step(0, "none")
  /\ env' = [env EXCEPT !.faults = @ + 1]
  /\ UNCHANGED WriteFrame

WriteEintr ==
  /\ pc = "write"
  /\ Faults < MaxFaults
  /\ write_data_step(-1, "EINTR")
  /\ env' = [env EXCEPT !.faults = @ + 1]
  /\ UNCHANGED << WriteFrame, file, pos, passAcc, passLo >>

WriteError ==
  /\ pc = "write"
  /\ write_data_step(-1, "EIO")
  /\ UNCHANGED << WriteFrame, env, file, pos, passAcc, passLo >>

(* ------------------------ random_pass / pattern_pass ------------------- *)

\* values lseek(fd, 0, SEEK_SET) may return: 0, -1, or some other offset
SeekResults == {0, -1, 1}

\* going on whatever lseek returned
SeekFails_never(r) == FALSE

\* taking only -1 for a failure of lseek
SeekFails_negative(r) == r < 0

\* if (lseek(fd, 0, SEEK_SET) != 0) return -1;
SeekFails(r) == r # 0

\* pattern_pass without its test of bufsz
BadBufsz_unchecked == FALSE

\* pattern_pass: if (!bufsz || ...) return -1;
BadBufsz == kind = "pattern" /\ bufsz = 0

Seek ==
  /\ pc = "seek"
  /\ IF BadBufsz
     THEN /\ passRet' = -1
          /\ failKind' = "bufsz"
          /\ pc' = "ret"
          /\ UNCHANGED << pos, ops >>
     ELSE \E r \in SeekResults :
          /\ ops' = [ops EXCEPT !.seek = @ + 1]
          /\ pos' = IF r = -1 THEN pos ELSE r
          /\ IF SeekFails(r)
             THEN /\ passRet' = -1
                  /\ failKind' = "seek"
                  /\ pc' = "ret"
             ELSE /\ pc' = "chunk"
                  /\ UNCHANGED << passRet, failKind >>
  /\ UNCHANGED << file, st_size, stage, pass, buf, rbuf, kind, bufsz, remaining,
                  towrite, written, ret, env, ndrawn, started, passAcc,
                  passLo, lastRes, prev >>

\* writing a whole buffer at every turn
ChunkLen_whole(n, sz) == sz

\* towrite = (nbytes > sizeof(buf) ? sizeof(buf) : nbytes);
ChunkLen(n, sz) == IF n > sz THEN sz ELSE n

\* while (nbytes > 0) { towrite = ...; [spc_rand(buf, towrite);] write_data(...) ... }
Chunk ==
  /\ pc = "chunk"
  /\ IF remaining > 0
     THEN LET n == ChunkLen(remaining, bufsz) IN
          /\ towrite' = n
          /\ written' = 0
          /\ IF kind = "random"
             THEN /\ rbuf' = spc_rand(rbuf, n, ndrawn)
                  /\ ndrawn' = ndrawn + n
                  /\ ops' = [ops EXCEPT !.chunks = @ + 1, !.rand = @ + 1, !.write = 0]
             ELSE /\ ops' = [ops EXCEPT !.chunks = @ + 1, !.write = 0]
                  /\ UNCHANGED << rbuf, ndrawn >>
          /\ pc' = "write"
     ELSE /\ pc' = "fsync"
          /\ UNCHANGED << towrite, written, rbuf, ndrawn, ops >>
  /\ UNCHANGED << file, pos, st_size, stage, pass, buf, kind, bufsz, remaining,
                  passRet, ret, env, started, passAcc, passLo, lastRes,
                  failKind, prev >>

\* a pass that returns what fsync returned
AfterFsync_surfaced(r) == r

\* fsync(fd); return 0;   -- the result r of fsync is not looked at
AfterFsync(r) == 0

FsyncFrame == << file, pos, st_size, stage, pass, buf, rbuf, kind, bufsz,
                 remaining, towrite, written, ret, ndrawn, started,
                 passAcc, passLo, lastRes, failKind, prev >>

FsyncOk ==
  /\ pc = "fsync"
  /\ ops' = [ops EXCEPT !.fsync = @ + 1]
  /\ passRet' = AfterFsync(0)
  /\ pc' = "ret"
  /\ UNCHANGED << FsyncFrame, env >>

FsyncFail ==
  /\ pc = "fsync"
  /\ Faults < MaxFaults
  /\ env' = [env EXCEPT !.faults = @ + 1, !.flushfail = TRUE]
  /\ ops' = [ops EXCEPT !.fsync = @ + 1]
  /\ passRet' = AfterFsync(-1)
  /\ pc' = "ret"
  /\ UNCHANGED FsyncFrame

(* ------------------------------ spc_fd_wipe ---------------------------- *)

StatFrame == << file, pos, buf, rbuf, kind, bufsz, remaining, towrite, written,
                passRet, env, ndrawn, started, passAcc, passLo, lastRes, prev >>

\* return 0;   -- the value spc_fd_wipe returns on success
OkCode == 0

\* returning 0 where the code returns -1
FailCode_ok == OkCode

\* return -1;   -- the one value every failing path of spc_fd_wipe returns
FailCode == -1

\* going on with the passes after a failed fstat, on whatever length is at hand
FstatFail_unchecked ==
  /\ pc = "stat"
  /\ ops' = [ops EXCEPT !.stat = @ + 1]
  /\ failKind' = "stat"
  /\ st_size' = Len(file)
  /\ stage' = 1
  /\ pass' = 0
  /\ pc' = "call"
  /\ UNCHANGED << StatFrame, ret >>

\* if (fstat(fd, &st) == -1) return -1;
FstatFail ==
  /\ pc = "stat"
  /\ ops' = [ops EXCEPT !.stat = @ + 1]
  /\ ret' = FailCode
  /\ failKind' = "stat"
  /\ pc' = "done"
  /\ UNCHANGED << StatFrame, st_size, stage, pass >>

\* no short cut for an empty file
IsEmpty_never(sz) == FALSE

\* if (!st.st_size) return 0;
IsEmpty(sz) == sz = 0

\* asking for the file's length again at every pass
SizeArg_requery == Len(file)

\* the size argument of random_pass / pattern_pass: st.st_size
SizeArg == st_size

FstatOk ==
  /\ pc = "stat"
  /\ ops' = [ops EXCEPT !.stat = @ + 1]
  /\ st_size' = Len(file)
  /\ IF IsEmpty(Len(file))
     THEN /\ ret' = OkCode
          /\ pc' = "done"
          /\ UNCHANGED << stage, pass >>
     ELSE /\ stage' = 1
          /\ pass' = 0
          /\ pc' = "call"
          /\ UNCHANGED ret
  /\ UNCHANGED << StatFrame, failKind >>

\* spc_fd_wipe prepares the buffer (pattern passes) and calls the pass primitive
StartPass ==
  /\ pc = "call"
  /\ IF IsRandomStage(stage)
     THEN /\ kind' = "random"
          /\ rbuf' = << >>
          /\ bufsz' = SPC_WIPE_BUFSIZE
          /\ UNCHANGED buf
     ELSE /\ kind' = "pattern"
          /\ buf' = PrepBuf(stage, pass, buf)
          /\ bufsz' = PrepSz(stage)
          /\ UNCHANGED rbuf
  /\ remaining' = SizeArg
  /\ started' = Append(started, Descriptor(stage, buf'))
  /\ passAcc' = 0
  /\ passLo' = -1
  /\ ops' = [ops EXCEPT !.seek = 0, !.chunks = 0, !.write = 0, !.fsync = 0,
                      !.rand = 0]
  /\ pc' = "seek"
  /\ UNCHANGED << file, pos, st_size, stage, pass, towrite, written, passRet, ret,
                  env, ndrawn, lastRes, failKind, prev >>

\* going on with the plan whatever the pass returned
PassFailed_never(r) == FALSE

\* if (random_pass(...) == -1) return -1;   if (pattern_pass(...) == -1) return -1;
PassFailed(r) == r = -1

\* returning 0 as soon as a loop has run out
PlanDone_early(s, p) == p + 1 >= StageLen(s)

\* the last loop has run out: return 0;
PlanDone(s, p) == s = LastStage /\ p + 1 >= StageLen(s)

\* the pass primitive has returned: abort, go on with the plan, or finish
PassReturn ==
  /\ pc = "ret"
  /\ kind' = "none"
  /\ IF PassFailed(passRet)
     THEN /\ ret' = FailCode
          /\ pc' = "done"
          /\ UNCHANGED << stage, pass >>
     ELSE IF PlanDone(stage, pass)
     THEN /\ ret' = OkCode
          /\ pc' = "done"
          /\ UNCHANGED << stage, pass >>
     ELSE IF pass + 1 < StageLen(stage)
     THEN /\ pass' = pass + 1
          /\ pc' = "call"
          /\ UNCHANGED << stage, ret >>
     ELSE /\ stage' = stage + 1
          /\ pass' = 0
          /\ pc' = "call"
          /\ UNCHANGED ret
  /\ UNCHANGED << file, pos, st_size, buf, rbuf, bufsz, remaining, towrite,
                  written, passRet, env, ops, ndrawn, started, passAcc,
                  passLo, lastRes, failKind, prev >>

(* ----------------------------- environment ----------------------------- *)

\* lengths another process may give the file
ResizeLens(n) == {0, n + 1}

Resize ==
  /\ pc \notin {"stat", "done"}
  /\ Faults < MaxFaults
  /\ \E n \in ResizeLens(Len(file)) :
       /\ n # Len(file)
       /\ file' = Resized(file, n)
  /\ env' = [env EXCEPT !.faults = @ + 1, !.resize = @ + 1]
  /\ UNCHANGED << pc, pos, st_size, stage, pass, buf, rbuf, kind, bufsz, remaining,
                  towrite, written, passRet, ret, ops, ndrawn, started,
                  passAcc, passLo, lastRes, failKind, prev >>

(* ---------------------------- specification ---------------------------- *)

\* the state in which spc_fd_wipe is entered, on a file of one of the lengths in sizes
Entry(sizes) ==
  /\ pc = "stat"
  /\ file \in {Fill(n, ORIG) : n \in sizes}
  /\ pos = 0
  /\ st_size = 0
  /\ stage = 0
  /\ pass = 0
  /\ buf = Fill(SPC_WIPE_BUFSIZE, UNINIT)
  /\ rbuf = << >>
  /\ kind = "none"
  /\ bufsz = 0
  /\ remaining = 0
  /\ towrite = 0
  /\ written = 0
  /\ passRet = 0
  /\ ret = 0
  /\ env = [faults |-> 0, resize |-> 0, flushfail |-> FALSE]
  /\ ops = [stat |-> 0, seek |-> 0, chunks |-> 0, write |-> 0, fsync |-> 0, rand |-> 0]
  /\ ndrawn = 0
  /\ started = << >>
  /\ passAcc = 0
  /\ passLo = -1
  /\ lastRes = 0
  /\ failKind = "none"

NoCall == [ret |-> 0, kind |-> "nocall"]

Init == Entry(FileSizes) /\ prev = NoCall

Next ==
  \/ FstatOk
  \/ FstatFail
  \/ StartPass
  \/ Seek
  \/ Chunk
  \/ WriteAll
  \/ WriteShort
  \/ WriteZero
  \/ WriteEintr
  \/ WriteError
  \/ FsyncOk
  \/ FsyncFail
  \/ PassReturn
  \/ Resize

Spec == Init /\ [][Next]_vars

\* The wipe on a descriptor whose write() is interrupted finitely often and
\* otherwise accepts at least one byte: no write of zero bytes, no other errno.
NextLive ==
  \/ FstatOk
  \/ FstatFail
  \/ StartPass
  \/ Seek
  \/ Chunk
  \/ WriteAll
  \/ WriteShort
  \/ WriteEintr
  \/ FsyncOk
  \/ FsyncFail
  \/ PassReturn
  \/ Resize

\* the steps of the wipe itself: every system call it makes returns
Progress ==
  \/ FstatOk
  \/ FstatFail
  \/ StartPass
  \/ Seek
  \/ Chunk
  \/ WriteAll
  \/ WriteShort
  \/ WriteEintr
  \/ FsyncOk
  \/ FsyncFail
  \/ PassReturn

InitLive == Entry(LiveSizes) /\ prev = NoCall

SpecLive == InitLive /\ [][NextLive]_vars /\ WF_vars(Progress)

\* The caller calls spc_fd_wipe again, on a fresh descriptor, remembering what
\* the call before returned and what had happened in it.
CallAgain ==
  /\ pc = "done"
  /\ prev' = [ret |-> ret, kind |-> failKind]
  /\ pc' = "stat"
  /\ file' \in {Fill(n, ORIG) : n \in CallSizes}
  /\ pos' = 0
  /\ st_size' = 0
  /\ stage' = 0
  /\ pass' = 0
  /\ buf' = Fill(SPC_WIPE_BUFSIZE, UNINIT)
  /\ rbuf' = << >>
  /\ kind' = "none"
  /\ bufsz' = 0
  /\ remaining' = 0
  /\ towrite' = 0
  /\ written' = 0
  /\ passRet' = 0
  /\ ret' = 0
  /\ env' = [faults |-> 0, resize |-> 0, flushfail |-> FALSE]
  /\ ops' = [stat |-> 0, seek |-> 0, chunks |-> 0, write |-> 0, fsync |-> 0, rand |-> 0]
  /\ ndrawn' = 0
  /\ started' = << >>
  /\ passAcc' = 0
  /\ passLo' = -1
  /\ lastRes' = 0
  /\ failKind' = "none"

NextCalls == Next \/ CallAgain

InitCalls == Entry(CallSizes) /\ prev = NoCall

SpecCalls == InitCalls /\ [][NextCalls]_vars

\* pattern_pass called on its own, outside spc_fd_wipe (stage = 0), with a
\* buffer length and a file size of the caller's choice
PatternBufSizes == {0, patternsz, SPC_WIPE_BUFSIZE}

PatternFileSizes == {0, 1, 4, 10}

PatternCall ==
  /\ pc = "seek"
  /\ kind = "pattern"
  /\ bufsz \in PatternBufSizes
  /\ remaining \in PatternFileSizes
  /\ st_size = remaining
  /\ file = Fill(remaining, ORIG)
  /\ buf = TileTriple(memset(single_pats[1]), triple_pats[1])
  /\ pos = 0
  /\ stage = 0
  /\ pass = 0
  /\ rbuf = << >>
  /\ towrite = 0
  /\ written = 0
  /\ passRet = 0
  /\ ret = 0
  /\ env = [faults |-> 0, resize |-> 0, flushfail |-> FALSE]
  /\ ops = [stat |-> 0, seek |-> 0, chunks |-> 0, write |-> 0, fsync |-> 0, rand |-> 0]
  /\ ndrawn = 0
  /\ started = << >>
  /\ passAcc = 0
  /\ passLo = -1
  /\ lastRes = 0
  /\ failKind = "none"

InitPattern == (Entry(FileSizes) \/ PatternCall) /\ prev = NoCall

\* the pass primitive returns into spc_fd_wipe; a pass called on its own ends
\* where it returns
WipeReturn == stage # 0 /\ PassReturn

NextPattern ==
  \/ FstatOk
  \/ FstatFail
  \/ StartPass
  \/ Seek
  \/ Chunk
  \/ WriteAll
  \/ WriteShort
  \/ WriteZero
  \/ WriteEintr
  \/ WriteError
  \/ FsyncOk
  \/ FsyncFail
  \/ WipeReturn
  \/ Resize

\* spc_fd_wipe, and pattern_pass called on its own
SpecPattern == InitPattern /\ [][NextPattern]_vars

\* The wipe on a descriptor whose every system call returns: a write() may
\* fail for good, and is interrupted or accepts nothing only finitely often.
\* File sizes: empty, below a buffer, and a whole buffer (one chunk of 4096
\* bytes, two chunks of up to 4095).
TermSizes == {0, 4, 4096}

InitTerm == Entry(TermSizes) /\ prev = NoCall

\* the steps of the wipe itself, a write() that accepts nothing or fails included
Returns == Progress \/ WriteZero \/ WriteError

SpecTerm == InitTerm /\ [][Next]_vars /\ WF_vars(Returns)

(* ======================================================================= *)
(* What is checked of the model                                            *)
(* ======================================================================= *)

\* the pass primitive running has written its last byte and was not failed
PassCompleted == pc = "fsync" \/ (pc = "ret" /\ passRet = 0)

\* the descriptor of the pass started last
CurDesc == started[Len(started)]

RECURSIVE StageBase(_)
\* how many passes the stages before stage s hold
StageBase(s) == IF s <= 1 THEN 0 ELSE StageBase(s - 1) + StageLen(s - 1)

\* the number, from 1, of the pass that stage s runs in its iteration p
PassNo(s, p) == StageBase(s) + p + 1

(* ------------------------------- C1 ------------------------------------ *)

\* C1: when spc_fd_wipe has returned and no size query, seek or write failed,
\* it returned 0 having started exactly 35 passes on a non-empty file and none
\* on an empty one; and it never returns 0 on a non-empty file with fewer than
\* 35 passes started.
C1_PassCount ==
  pc = "done" =>
    /\ failKind = "none" =>
         /\ ret = 0
         /\ Len(started) = IF st_size > 0 THEN 35 ELSE 0
    /\ (ret = 0 /\ st_size > 0) => Len(started) = 35

\* a wipe of a non-empty file that was disturbed once and returned 0 after 35 passes
C1_Witness ==
  /\ pc = "done"
  /\ ret = 0
  /\ st_size > 0
  /\ Len(started) = 35
  /\ env.faults = 1

(* ------------------------------- C2 ------------------------------------ *)

C2_R == [kind |-> "random", pat |-> << >>]

C2_P(bytes) == [kind |-> "pattern", pat |-> bytes]

\* the plan as the specification states it, pass 1 first
C2_Plan ==
  << C2_R, C2_R, C2_R, C2_R,
     C2_P(<<85>>), C2_P(<<170>>),
     C2_P(<<146, 73, 36>>), C2_P(<<73, 36, 146>>), C2_P(<<36, 146, 73>>),
     C2_P(<<0>>), C2_P(<<17>>), C2_P(<<34>>), C2_P(<<51>>),
     C2_P(<<68>>), C2_P(<<85>>), C2_P(<<102>>), C2_P(<<119>>),
     C2_P(<<136>>), C2_P(<<153>>), C2_P(<<170>>), C2_P(<<187>>),
     C2_P(<<204>>), C2_P(<<221>>), C2_P(<<238>>), C2_P(<<255>>),
     C2_P(<<146, 73, 36>>), C2_P(<<73, 36, 146>>), C2_P(<<36, 146, 73>>),
     C2_P(<<109, 182, 219>>), C2_P(<<182, 219, 109>>), C2_P(<<219, 109, 182>>),
     C2_R, C2_R, C2_R, C2_R >>

\* C2: in every state of every wipe, whatever the file size, the resizes and
\* the splitting of the writes, the k-th pass started has the k-th descriptor of
\* the stated plan, and a pattern pass is handed a buffer that starts with its
\* pattern.
C2_PlanOrder ==
  /\ Len(started) <= Len(C2_Plan)
  /\ \A k \in 1..Len(started) : started[k] = C2_Plan[k]
  /\ kind = "pattern" => SubSeq(buf, 1, Len(CurDesc.pat)) = C2_Plan[Len(started)].pat
  /\ (kind = "random") = (Len(started) > 0 /\ pc # "done" /\ pc # "call"
                           /\ C2_Plan[Len(started)].kind = "random")

\* the last of the 35 passes was started on a file that another process resized
C2_Witness ==
  /\ Len(started) = 35
  /\ st_size > 0
  /\ env.resize = 1
  /\ pc = "seek"

(* ------------------------------- C3 ------------------------------------ *)

\* C3: the size is queried at most once, and once before any pass is started;
\* within a pass the writes lie one after the other in the file; and a pass
\* that completes has had exactly st_size bytes accepted, the first at offset
\* 0 and the last at offset st_size - 1, whatever the file's length has become.
C3_SnapshotBytes ==
  /\ ops.stat <= 1
  /\ (Len(started) > 0 \/ pc # "stat") => ops.stat = 1
  /\ (pc \in {"chunk", "write", "fsync"} /\ passLo # -1) => pos = passLo + passAcc
  /\ PassCompleted =>
       /\ passAcc = st_size
       /\ passLo = 0
       /\ pos = st_size

\* a pass completed on the 5000-byte file after another process made the file longer
C3_Witness ==
  /\ pc = "ret"
  /\ passRet = 0
  /\ st_size = 5000
  /\ env.resize = 1
  /\ Len(file) = 5001
  /\ passAcc = 5000

(* ------------------------------- C4 ------------------------------------ *)

\* C4: when a pattern pass has written its last byte, and no other process
\* resized the file during the wipe, the byte at every offset i below st_size
\* is P[i mod L], P being the pass's pattern and L its length.
C4_PatternBytes ==
  (PassCompleted /\ kind = "pattern" /\ env.resize = 0) =>
    LET P == CurDesc.pat
        L == Len(P)
    IN  /\ L \in {1, 3}
        /\ Len(file) = st_size
        /\ \A i \in 0..(st_size - 1) : file[i + 1] = P[(i % L) + 1]

\* the pass with pattern 92 49 24 completed on the 5000-byte file, one of its
\* writes split: 1666 repetitions are followed by 92 49
C4_Witness ==
  /\ pc = "ret"
  /\ passRet = 0
  /\ kind = "pattern"
  /\ CurDesc.pat = <<146, 73, 36>>
  /\ st_size = 5000
  /\ env.faults = 1
  /\ env.resize = 0
  /\ ~env.flushfail
  /\ lastRes < towrite
  /\ SubSeq(file, 3 * 1666 - 2, 5000) = <<146, 73, 36, 146, 73>>
  /\ SubSeq(file, 4094, 4099) = <<73, 36, 146, 73, 36, 146>>

(* ------------------------------- C5 ------------------------------------ *)

\* C5: once a seek or a write has failed for good, no call is issued and no
\* pass is started any more, and the wipe returns -1; a pass is started only
\* as the next one of the plan, the first at once and every other one after
\* the pass before it returned 0.
C5_AbortOnFailure ==
  [][ /\ failKind # "none" =>
           /\ ops' = ops
           /\ started' = started
           /\ pos' = pos
           /\ pc' \in {"ret", "done"}
           /\ pc' = "done" => ret' = -1
      /\ started' # started =>
           /\ started' = Append(started, C2_Plan[Len(started) + 1])
           /\ PassNo(stage, pass) = Len(started) + 1
           /\ failKind = "none"
           /\ Len(started) > 0 => passRet = 0
    ]_vars

\* the wipe returned -1 because a write of the ninth pass failed
C5_Witness ==
  /\ pc = "done"
  /\ ret = -1
  /\ failKind = "write"
  /\ Len(started) = 9

(* ------------------------------- C6 ------------------------------------ *)

\* C6: when the size query has reported length 0, spc_fd_wipe has returned 0
\* and has issued no lseek, no write and no fsync, drawn no random bytes and
\* started no pass.
C6_EmptyFile ==
  (ops.stat = 1 /\ st_size = 0 /\ failKind # "stat") =>
    /\ pc = "done"
    /\ ret = 0
    /\ ops.seek = 0 /\ ops.write = 0 /\ ops.fsync = 0 /\ ops.rand = 0
    /\ started = << >>
    /\ file = << >>
    /\ pos = 0

\* the wipe of an empty file has returned
C6_Witness ==
  /\ pc = "done"
  /\ ops.stat = 1
  /\ st_size = 0
  /\ Len(file) = 0
  /\ failKind = "none"
  /\ ret = 0

(* ------------------------------- C7 ------------------------------------ *)

\* a write() call of write_data failing with EINTR
C7_Interrupted ==
  /\ pc = "write"
  /\ lastRes' = -1
  /\ ops'.write = ops.write + 1
  /\ env'.faults = env.faults + 1

C9_ZeroWriteFails ==
  [][ (/\ pc = "write"
       /\ written < towrite
       /\ ops'.write = ops.write + 1
       /\ lastRes' = 0)
      => (pc' = "ret" /\ passRet' = -1 /\ failKind' = "write")
    ]_vars

(* ------------------------------- C10 ----------------------------------- *)

\* C10: the step that calls fsync makes the pass return 0 and records no
\* failure, whether fsync failed or not; and after a pass returned 0 the wipe
\* goes on to start the next pass or, after the 35th, returns 0.
C10_FlushIgnored ==
  [][ /\ (pc = "fsync" /\ pc' # "fsync") =>
           /\ pc' = "ret"
           /\ passRet' = 0
           /\ failKind' = "none"
           /\ ops'.fsync = 1
      /\ (pc = "ret" /\ passRet = 0 /\ pc' # "ret") =>
           \/ pc' = "call" /\ Len(started) < 35
           \/ pc' = "done" /\ ret' = 0 /\ Len(started) = 35
    ]_vars

\* the wipe has returned 0 after all 35 passes although an fsync failed
C10_Witness ==
  /\ pc = "done"
  /\ ret = 0
  /\ env.flushfail
  /\ Len(started) = 35

(* ------------------------------- C11 ----------------------------------- *)

\* a write() call made by write_data
WriteCall == pc = "write" /\ ops'.write = ops.write + 1

\* C11: written never exceeds nbytes; every write() call accepts at most
\* min(nbytes - written, SSIZE_MAX) bytes, namely the bytes of the buffer from
\* offset written on, stored at the descriptor's offset; written advances by
\* exactly the count the call reported and not at all when it failed; and
\* write_data returns success only with written = nbytes.
C11_WrittenAccounting ==
  /\ [](written <= towrite)
  /\ [][ WriteCall =>
           LET req == IF towrite - written > SSIZE_MAX THEN SSIZE_MAX
                      ELSE towrite - written
           IN  /\ req > 0
               /\ lastRes' <= req
               /\ lastRes' >= 0 =>
                    /\ written' = written + lastRes'
                    /\ file' = WriteAt(file, pos,
                                       SubSeq(wbuf, written + 1, written + lastRes'))
                    /\ pos' = pos + lastRes'
               /\ lastRes' < 0 => (written' = written /\ file' = file /\ pos' = pos)
               /\ pc' = "chunk" => (written' = towrite /\ lastRes' >= 0)
       ]_vars

\* write_data has returned success after a write() that accepted part of the
\* buffer and a second one that accepted the rest
C11_Witness ==
  /\ pc = "chunk"
  /\ ops.write = 2
  /\ written = towrite
  /\ lastRes > 0
  /\ lastRes < towrite
  /\ towrite = 4096

(* ------------------------------- C12 ----------------------------------- *)

\* C12: the counters of the current (or last) pass show one order of calls:
\* nothing before the seek, at most one seek, writes only after it and
\* contiguous from offset 0 (so no seek between them), at most one flush,
\* issued only once all st_size bytes were accepted and followed by nothing;
\* a pass that failed on its seek or on a write has issued no flush.
C12_PassOrder ==
  /\ ops.seek <= 1
  /\ ops.fsync <= 1
  /\ pc = "seek" => (ops.seek = 0 /\ ops.write = 0 /\ ops.fsync = 0 /\ passAcc = 0)
  /\ passLo \in {-1, 0}
  /\ (passLo # -1 \/ passAcc > 0 \/ ops.write > 0) => ops.seek = 1
  /\ passLo = 0 => (pos = passAcc \/ pc \in {"seek", "call"})
  /\ pc \in {"chunk", "write", "fsync"} => (ops.seek = 1 /\ ops.fsync = 0)
  /\ pc = "fsync" => (passAcc = st_size /\ remaining = 0)
  /\ ops.fsync = 1 =>
       /\ pc \in {"ret", "call", "done"}
       /\ ops.seek = 1
       /\ passAcc = st_size
       /\ passRet = 0
       /\ failKind = "none"
  /\ failKind \in {"seek", "write"} => (ops.fsync = 0 /\ passRet = -1)

\* a random pass over 5000 bytes has returned after its seek, its writes (one
\* of them disturbed) and its flush
C12_Witness ==
  /\ pc = "ret"
  /\ kind = "random"
  /\ passRet = 0
  /\ st_size = 5000
  /\ ops.seek = 1
  /\ ops.fsync = 1
  /\ passAcc = 5000
  /\ env.faults = 1
  /\ env.resize = 0

(* ------------------------------- C13 ----------------------------------- *)

\* C13: a pass whose seek failed or landed elsewhere than offset 0 has returned
\* -1 with no write, no flush and no random draw, and spc_fd_wipe returns -1;
\* a pass is past its seek only with the descriptor at offset 0 plus what it
\* has written since.
C13_SeekFailure ==
  /\ failKind = "seek" =>
       /\ pc \in {"ret", "done"}
       /\ passRet = -1
       /\ ops.seek = 1
       /\ ops.write = 0
       /\ ops.fsync = 0
       /\ ops.rand = 0
       /\ passAcc = 0
       /\ passLo = -1
       /\ pc = "done" => ret = -1
  /\ pc \in {"chunk", "write", "fsync"} => pos = passAcc

\* the seek of the second random pass landed on offset 1 and the wipe failed
C13_Witness ==
  /\ pc = "done"
  /\ ret = -1
  /\ failKind = "seek"
  /\ pos = 1
  /\ st_size = 4
  /\ Len(started) = 2
  /\ CurDesc.kind = "random"
  /\ ops.rand = 0

(* ------------------------------- C14 ----------------------------------- *)

\* the first n bytes of b repeat the pattern P: b[j] = P[j mod L], counting from 0
Tiled(b, n, P) == \A j \in 0..(n - 1) : b[j + 1] = P[(j % Len(P)) + 1]

\* C14: when pattern_pass is entered the length it is handed is the largest
\* multiple of the pattern's length L that is at most 4096 (4096 for L = 1,
\* 4095 for L = 3) and every buffer byte below that length is the pattern's
\* byte at its index mod L; from the entry to the return of the pass neither
\* the buffer nor the length changes.
C14_TiledBuffer ==
  /\ []( (pc = "seek" /\ kind = "pattern") =>
           LET P == C2_Plan[Len(started)].pat
               L == Len(P)
           IN  /\ L \in {1, 3}
               /\ bufsz = (SPC_WIPE_BUFSIZE \div L) * L
               /\ bufsz = IF L = 1 THEN 4096 ELSE 4095
               /\ Tiled(buf, bufsz, P) )
  /\ [][ (kind = "pattern" /\ kind' = "pattern") => (buf' = buf /\ bufsz' = bufsz) ]_vars

\* the first three-byte pass has returned: 4095 bytes were handed over, the
\* last of them the pattern's third byte, and the 4096th byte of the buffer
\* still holds 0xAA from the pass before
C14_Witness ==
  /\ pc = "ret"
  /\ kind = "pattern"
  /\ passRet = 0
  /\ Len(started) = 7
  /\ bufsz = 4095
  /\ buf[4093] = 146
  /\ buf[4094] = 73
  /\ buf[4095] = 36
  /\ buf[4096] = 170
  /\ passAcc = st_size

(* ------------------------------- C15 ----------------------------------- *)

\* C15: pattern_pass handed a buffer length of 0 returns -1 at once, whatever
\* the file size: no seek, no write, no flush, the descriptor's offset where
\* it was; no chunk is ever started with a length of 0; and the length
\* spc_fd_wipe hands to pattern_pass is never 0.
C15_ZeroBufsz ==
  /\ (kind = "pattern" /\ bufsz = 0) =>
       /\ stage = 0
       /\ pc \in {"seek", "ret"}
       /\ ops.seek = 0
       /\ ops.write = 0
       /\ ops.fsync = 0
       /\ passAcc = 0
       /\ passLo = -1
       /\ pos = 0
       /\ env.resize = 0 => file = Fill(st_size, ORIG)
       /\ pc = "ret" => (passRet = -1 /\ failKind = "bufsz")
  /\ pc = "write" => towrite > 0
  /\ (kind = "pattern" /\ stage # 0) => bufsz > 0
  /\ failKind = "bufsz" => stage = 0

\* pattern_pass, called with a buffer length of 0 on a file of 10 bytes, has
\* returned -1
C15_Witness ==
  /\ pc = "ret"
  /\ kind = "pattern"
  /\ stage = 0
  /\ bufsz = 0
  /\ st_size = 10
  /\ passRet = -1
  /\ ops.seek = 0

(* ------------------------------- C16 ----------------------------------- *)

\* C16: once fstat has failed, spc_fd_wipe has returned -1 and has made no
\* other call: no seek, no write, no flush, no random byte drawn, no pass
\* started, the descriptor's offset and every byte of the file as they were.
C16_StatFailure ==
  failKind = "stat" =>
    /\ pc = "done"
    /\ ret = -1
    /\ ops = [stat |-> 1, seek |-> 0, chunks |-> 0, write |-> 0, fsync |-> 0,
            rand |-> 0]
    /\ ndrawn = 0
    /\ started = << >>
    /\ kind = "none"
    /\ pos = 0
    /\ file = Fill(Len(file), ORIG)
    /\ env.faults = 0

\* fstat failed on a file of 5000 bytes and spc_fd_wipe has returned
C16_Witness ==
  /\ pc = "done"
  /\ failKind = "stat"
  /\ ret = -1
  /\ Len(file) = 5000
  /\ ops.stat = 1

(* ------------------------------- C17 ----------------------------------- *)

\* C17: in a random pass spc_rand is called once for every chunk, before its
\* write_data and not again while write_data splits or retries the write; the
\* chunk is min(remaining, 4096) bytes long and the bytes drawn in the pass are
\* exactly those of the chunks started; when the pass is complete on a file no
\* other process resized, offset i of the file holds the i-th byte drawn in the
\* pass, for every i below st_size: every offset got a byte of this pass and no
\* drawn byte went to two offsets.
C17_RandomFill ==
  kind = "random" =>
    /\ bufsz = SPC_WIPE_BUFSIZE
    /\ ops.rand = ops.chunks
    /\ pc = "write" =>
         /\ towrite = (IF remaining > 4096 THEN 4096 ELSE remaining)
         /\ Len(rbuf) >= towrite
         /\ rbuf[1] = RandByte(ndrawn - towrite + 1)
         /\ rbuf[towrite] = RandByte(ndrawn)
         /\ ops.chunks = ((st_size - remaining) \div 4096) + 1
    /\ pc \in {"chunk", "fsync"} =>
         ops.chunks = (st_size - remaining + 4095) \div 4096
    /\ PassCompleted =>
         /\ passLo = 0
         /\ passAcc = st_size
         /\ ops.rand = (st_size + 4095) \div 4096
         /\ env.resize = 0 =>
              file = [i \in 1..st_size |-> RandByte(ndrawn - st_size + i)]

\* the first random pass over 5000 bytes has returned: two draws, the second
\* chunk written by two write() calls, the last offset holding the last byte drawn
C17_Witness ==
  /\ pc = "ret"
  /\ kind = "random"
  /\ passRet = 0
  /\ st_size = 5000
  /\ Len(started) = 1
  /\ ops.rand = 2
  /\ ops.write = 2
  /\ lastRes < towrite
  /\ env.resize = 0
  /\ ndrawn = 5000
  /\ file[1] = RandByte(1)
  /\ file[4097] = RandByte(4097)
  /\ file[5000] = RandByte(5000)

(* ------------------------------- C18 ----------------------------------- *)

\* C18: the writes of a pass stay below offset st_size: they are contiguous
\* from offset 0, the bytes accepted so far and the request pending never reach
\* past st_size, and a completed pass leaves the descriptor's offset at exactly
\* st_size; no step of the wipe makes the file longer than the longer of its
\* current length and st_size, and a file no other process resized keeps the
\* length st_size.
C18_WithinSnapshot ==
  /\ []( /\ passLo \in {-1, 0}
         /\ passAcc <= st_size
         /\ pc \in {"chunk", "write", "fsync"} => (pos = passAcc /\ pos <= st_size)
         /\ pc = "write" => pos + (towrite - written) <= st_size
         /\ PassCompleted => pos = st_size
         /\ (env.resize = 0 /\ pc \notin {"stat"} /\ failKind # "stat") =>
              Len(file) = st_size )
  /\ [][ env'.resize = env.resize =>
           /\ Len(file') <= (IF Len(file) > st_size THEN Len(file) ELSE st_size)
           /\ Len(file') >= Len(file)
       ]_vars

\* a pass has completed on a file that another process had cut to length 0:
\* the file is back at length st_size, not longer, and the offset is st_size
C18_Witness ==
  /\ PassCompleted
  /\ st_size = 5000
  /\ env.resize = 1
  /\ Len(file) = 5000
  /\ pos = 5000
  /\ file[1] = 0

(* ------------------------------- C19 ----------------------------------- *)

\* S / n rounded up
CeilDiv(S, n) == (S + n - 1) \div n

\* C19: every call of spc_fd_wipe returns, whatever the file size, when every
\* write() either fails for good or, after finitely many interruptions and
\* empty results, accepts a byte; every chunk is started with a length of
\* min(remaining, bufsz) > 0 and gets at least one write() call; the chunks
\* started in a pass number ceil(bytes handled / bufsz), which is
\* ceil(st_size / bufsz) when the pass is complete.
C19_Terminates ==
  /\ <>(pc = "done")
  /\ []( /\ pc = "write" =>
              /\ towrite > 0
              /\ towrite = (IF remaining > bufsz THEN bufsz ELSE remaining)
              /\ ops.chunks = CeilDiv(st_size - remaining, bufsz) + 1
         /\ pc \in {"chunk", "fsync"} =>
              /\ ops.chunks = CeilDiv(st_size - remaining, bufsz)
              /\ ops.chunks > 0 => ops.write >= 1
         /\ PassCompleted =>
              /\ remaining = 0
              /\ ops.chunks = CeilDiv(st_size, bufsz) )

\* the wipe of a file of exactly one buffer has returned: the first pass with
\* a three-byte pattern wrote its chunk of 4095 bytes and started a second
\* chunk, of one byte, whose write() failed for good
C19_Witness ==
  /\ pc = "done"
  /\ ret = -1
  /\ failKind = "write"
  /\ st_size = 4096
  /\ Len(started) = 7
  /\ bufsz = 4095
  /\ ops.chunks = 2
  /\ towrite = 1
  /\ passAcc = 4095

====
